---- MODULE Spec2Model ----
(***************************************************************************)
(* replit_code_exec: code_exec (the request builder) and the adapter       *)
(* _code_exec returned by build_code_exec (src/src/replit_code_exec/       *)
(* __init__.py).  Strings whose characters matter (the code, the bearer    *)
(* token) are sequences of one-character strings.  An optional value is    *)
(* <<>> (Python None) or <<v>>.                                            *)
(***************************************************************************)
EXTENDS Integers, Sequences, FiniteSets, TLC

(* ------------------------------------------------------------------ *)
(* Bounds of the model                                                 *)
(* ------------------------------------------------------------------ *)

\* Longest code string of the normalization runs, counted in pieces.
MaxPieces == 5

\* Number of invocations of the bound adapter that may be in progress at once.
NumInvocations == 2

(* ------------------------------------------------------------------ *)
(* Python str operations used by _code_exec                            *)
(* ------------------------------------------------------------------ *)

\* The backtick character.
BT == "BT"
NL == "\n"
SP == " "

\* The literal of three backticks of line 159.
Fence == <<BT, BT, BT>>

\* The characters str.strip() removes that occur in the modelled alphabet.
Whitespace == {SP, NL, "\t", "\r"}

RECURSIVE lstrip(_)
lstrip(s) ==
    IF Len(s) > 0 /\ Head(s) \in Whitespace THEN lstrip(Tail(s)) ELSE s

RECURSIVE rstrip(_)
rstrip(s) ==
    IF Len(s) > 0 /\ s[Len(s)] \in Whitespace
    THEN rstrip(SubSeq(s, 1, Len(s) - 1))
    ELSE s

\* str.strip(): leading and trailing whitespace removed, line 158.
strip(s) == rstrip(lstrip(s))

\* str.startswith(prefix)
startswith(s, prefix) ==
    /\ Len(s) >= Len(prefix)
    /\ SubSeq(s, 1, Len(prefix)) = prefix

\* str.endswith(suffix)
endswith(s, suffix) ==
    /\ Len(s) >= Len(suffix)
    /\ SubSeq(s, Len(s) - Len(suffix) + 1, Len(s)) = suffix

\* str.split("\n"): the pieces between newlines, always at least one.
RECURSIVE split(_)
split(s) ==
    IF \E k \in 1..Len(s) : s[k] = NL
    THEN LET k == CHOOSE j \in 1..Len(s) :
                     s[j] = NL /\ \A h \in 1..(j - 1) : s[h] # NL
         IN  <<SubSeq(s, 1, k - 1)>> \o split(SubSeq(s, k + 1, Len(s)))
    ELSE <<s>>

\* "\n".join(lines)
RECURSIVE join(_)
join(lines) ==
    IF Len(lines) = 0 THEN <<>>
    ELSE IF Len(lines) = 1 THEN lines[1]
    ELSE lines[1] \o <<NL>> \o join(Tail(lines))

\* A plausible slip: the slice [1:], which keeps the closing fence line.
slice_1_only(lines) ==
    IF Len(lines) <= 1 THEN <<>> ELSE SubSeq(lines, 2, Len(lines))

\* The slice lines[1:-1]: everything but the first and the last element
\* (empty for a list of one or two elements).
slice_1_m1(lines) ==
    IF Len(lines) <= 2 THEN <<>> ELSE SubSeq(lines, 2, Len(lines) - 1)

\* Line 161: "\n".join(code.split("\n")[1:-1])
strip_fence_lines(code) == join(slice_1_m1(split(code)))

\* A plausible slip of line 159: only the opening fence looked for.
is_fenced_start(code) == startswith(code, Fence)

\* A plausible slip of line 159: "or" for "and".
is_fenced_or(code) == startswith(code, Fence) \/ endswith(code, Fence)

\* Line 159: code.startswith(fence) and code.endswith(fence)
is_fenced(code) == startswith(code, Fence) /\ endswith(code, Fence)

\* Lines 159-161 applied to the stripped code.
unfence(code) == IF is_fenced(code) THEN strip_fence_lines(code) ELSE code

\* Lines 158-161: the value of code handed to code_exec at line 162.
normalize(code) == unfence(strip(code))

(* ------------------------------------------------------------------ *)
(* Code strings                                                        *)
(* ------------------------------------------------------------------ *)

Pieces == {Fence, <<BT>>, <<NL>>, <<SP>>, <<"a">>}

RECURSIVE Concat(_)
Concat(ps) == IF Len(ps) = 0 THEN <<>> ELSE Head(ps) \o Concat(Tail(ps))

\* Every string made of at most MaxPieces pieces.
CodeStrings ==
    { Concat(ps) : ps \in UNION { [1..n -> Pieces] : n \in 0..MaxPieces } }


(* ------------------------------------------------------------------ *)
(* State                                                               *)
(* ------------------------------------------------------------------ *)

VARIABLES
    closure,    \* the variables _code_exec closes over (lines 75-79)
    dict_obj,   \* the contents of the dict the caller passed as files
    built,      \* history: the configuration as it was when the adapter was built
    pc,         \* where each call stands
    arg,        \* history: the code string the adapter was invoked with
    code,       \* the local variable code of each invocation of _code_exec
    call,       \* the arguments of the call of code_exec
    req,        \* the HTTP request handed to requests.post
    nreq,       \* history: requests issued by the call in progress
    http,       \* the Response object requests.post returned
    fault,      \* history: the exception requests.post raised
    exc,        \* the exception that left the call
    result,     \* the value the call returned
    n_arg, n_code, n_pc, n_pass, n_first

pvars == <<closure, dict_obj, built, pc, arg, code, call, req, nreq, http,
           fault, exc, result>>

nvars == <<n_arg, n_code, n_pc, n_pass, n_first>>

\* Concurrent invocations of the adapter, and one caller of code_exec itself.
Invocations == 1..NumInvocations
Direct == 0
Callers == Invocations \cup {Direct}

Urls == {"https://a.example/eval", "https://b.example/eval"}
Tokens == { <<"t", "k">>, <<"a", SP, "%", SP>> }
\* The deployments an adapter is built for, each with its own secret.
Endpoints ==
    { [url |-> "https://a.example/eval", bearer_token |-> <<"t", "k">>],
      [url |-> "https://b.example/eval", bearer_token |-> <<"a", SP, "%", SP>>] }
FileMaps == { {}, {<<"data.txt", "x">>} }
OptFiles == {<<>>} \cup { <<m>> : m \in FileMaps }

\* What callers pass as code: one string that is only trimmed, one fenced.
CallCodes == { <<SP, "a", NL>>, Fence \o <<NL, "b", NL>> \o Fence }

StatusCodes == {200, 404, 500}
TransportErrors == {"ConnectionError", "Timeout"}

(* ------------------------------------------------------------------ *)
(* code_exec, lines 57-71                                              *)
(* ------------------------------------------------------------------ *)

\* data[key] = value
dict_set(d, key, value) ==
    [k \in DOMAIN d \cup {key} |-> IF k = key THEN value ELSE d[k]]

\* A plausible slip: the optional keys always sent, False and None included.
code_exec_data_always(code_, files, strace, interpreter_mode) ==
    [code |-> code_, files |-> files, strace |-> strace,
     interpreter_mode |-> interpreter_mode]

\* A plausible slip: "if files:" for "if files is not None:".
code_exec_data_truthy(code_, files, strace, interpreter_mode) ==
    LET d0 == [code |-> code_]
        d1 == IF files # <<>> /\ files[1] # {}
              THEN dict_set(d0, "files", files[1]) ELSE d0
        d2 == IF strace THEN dict_set(d1, "strace", TRUE) ELSE d1
    IN  IF interpreter_mode THEN dict_set(d2, "interpreter_mode", TRUE) ELSE d2

\* Lines 57-63: the dict passed as json=.
code_exec_data(code_, files, strace, interpreter_mode) ==
    LET d0 == [code |-> code_]
        d1 == IF files # <<>> THEN dict_set(d0, "files", files[1]) ELSE d0
        d2 == IF strace THEN dict_set(d1, "strace", TRUE) ELSE d1
    IN  IF interpreter_mode THEN dict_set(d2, "interpreter_mode", TRUE) ELSE d2

Bearer == <<"B", "e", "a", "r", "e", "r", SP>>

\* A plausible slip: the token trimmed before use.
authorization_stripped(bearer_token) == Bearer \o strip(bearer_token)

\* Line 69: "Bearer " + bearer_token
authorization(bearer_token) == Bearer \o bearer_token

\* Lines 64-70: the request requests.post issues.
code_exec_request(a) ==
    [method  |-> "POST",
     url     |-> a.url,
     json    |-> code_exec_data(a.code, a.files, a.strace, a.interpreter_mode),
     headers |-> [h \in {"Content-Type", "Authorization"} |->
                     IF h = "Content-Type" THEN "application/json"
                     ELSE authorization(a.bearer_token)]]

\* A plausible slip: the status inspected before the body is returned.
response_text_checked(r) == IF r.status >= 400 THEN <<"HTTPError">> ELSE r.text

\* Line 71: .text of the response, whatever its status.
response_text(r) == r.text

\* A plausible slip: the request issued again after a transport failure.
after_failure_retry(p) == IF p \in Invocations THEN "normalized" ELSE "idle"

\* Lines 64-71 and 162-164 have no try/except: an exception raised by
\* requests.post ends the call.
after_failure(p) == "raised"

(* ------------------------------------------------------------------ *)
(* build_code_exec and _code_exec, lines 74-166                        *)
(* ------------------------------------------------------------------ *)

\* The files the closure refers to: None, or the caller's dict as it is now.
closure_files == IF closure.files = <<>> THEN <<>> ELSE <<dict_obj>>

\* A variant that copies the dict when the adapter is built.
adapter_args_snapshot(i) ==
    [url |-> closure.url, bearer_token |-> closure.bearer_token,
     code |-> code[i], files |-> built.files,
     strace |-> closure.strace, interpreter_mode |-> closure.interpreter_mode]

\* A plausible slip: code kept in a variable the invocations share.
adapter_args_shared(i) ==
    LET j == CHOOSE k \in Invocations :
                 /\ pc[k] \in {"normalized", "waiting"}
                 /\ \A h \in Invocations :
                        pc[h] \in {"normalized", "waiting"} => k >= h
    IN  [url |-> closure.url, bearer_token |-> closure.bearer_token,
         code |-> code[j], files |-> closure_files,
         strace |-> closure.strace, interpreter_mode |-> closure.interpreter_mode]

\* Line 162: code_exec(url, bearer_token, code, files, strace, interpreter_mode)
adapter_args(i) ==
    [url |-> closure.url, bearer_token |-> closure.bearer_token,
     code |-> code[i], files |-> closure_files,
     strace |-> closure.strace, interpreter_mode |-> closure.interpreter_mode]

\* What the remote service answers: text that names the connection it came
\* in on and the code it was sent.
service_text(p, r) == <<"out", p, r.json.code>>

Quiet(ps) == \A p \in ps : pc[p] = "idle"

\* The state after build_code_exec(url, bearer_token, files, strace,
\* interpreter_mode) returned the adapter; nothing has been called yet.  files
\* was None or a dict that is still empty (the caller may fill it later).
Init ==
    /\ \E e \in Endpoints, f \in {<<>>, <<"dict">>}, s, m \in BOOLEAN :
           closure = [url |-> e.url, bearer_token |-> e.bearer_token,
                      files |-> f, strace |-> s, interpreter_mode |-> m]
    /\ dict_obj = {}
    /\ built = [closure EXCEPT !.files = closure_files]
    /\ pc = [p \in Callers |-> "idle"]
    /\ arg = [p \in Callers |-> <<>>]
    /\ code = [p \in Callers |-> <<>>]
    /\ call = [p \in Callers |-> <<>>]
    /\ req = [p \in Callers |-> <<>>]
    /\ nreq = [p \in Callers |-> 0]
    /\ http = [p \in Callers |-> <<>>]
    /\ fault = [p \in Callers |-> <<>>]
    /\ exc = [p \in Callers |-> <<>>]
    /\ result = [p \in Callers |-> <<>>]
    /\ n_arg = <<>> /\ n_code = <<>> /\ n_pc = "off" /\ n_pass = 0
    /\ n_first = <<>>

\* The caller invokes the adapter, _code_exec(c), which normalizes its
\* argument: lines 132 and 158-161.
Invoke(i, c) ==
    /\ pc[i] = "idle"
    /\ pc[Direct] = "idle"
    /\ pc' = [pc EXCEPT ![i] = "normalized"]
    /\ arg' = [arg EXCEPT ![i] = <<c>>]
    /\ code' = [code EXCEPT ![i] = normalize(c)]
    /\ UNCHANGED <<closure, dict_obj, built, call, req, nreq, http, fault,
                   exc, result, nvars>>

\* code_exec up to the moment requests.post has sent the request.
Post(p, a) ==
    /\ call' = [call EXCEPT ![p] = <<a>>]
    /\ req' = [req EXCEPT ![p] = <<code_exec_request(a)>>]
    /\ nreq' = [nreq EXCEPT ![p] = @ + 1]
    /\ pc' = [pc EXCEPT ![p] = "waiting"]
    /\ UNCHANGED <<closure, dict_obj, built, http, fault, exc, result, nvars>>

\* Line 162, into lines 57-70
AdapterPost(i) ==
    /\ pc[i] = "normalized"
    /\ Post(i, adapter_args(i))
    /\ UNCHANGED <<arg, code>>

\* The caller calls code_exec itself, while no adapter invocation runs.
DirectCall(a) ==
    /\ pc[Direct] = "idle"
    /\ Quiet(Invocations)
    /\ Post(Direct, a)
    /\ UNCHANGED <<arg, code>>

\* requests.post returns a Response, of any status; line 71 takes its text,
\* which the adapter logs and returns (lines 162-164).
TransportRespond(p, status) ==
    /\ pc[p] = "waiting"
    /\ LET r == [status |-> status, text |-> service_text(p, req[p][1])]
       IN  /\ http' = [http EXCEPT ![p] = <<r>>]
           /\ result' = [result EXCEPT ![p] = <<response_text(r)>>]
    /\ pc' = [pc EXCEPT ![p] = "returned"]
    /\ UNCHANGED <<closure, dict_obj, built, arg, code, call, req, nreq,
                   fault, exc, nvars>>

\* requests.post raises.
TransportFail(p, err) ==
    /\ pc[p] = "waiting"
    /\ fault' = [fault EXCEPT ![p] = <<err>>]
    /\ exc' = [exc EXCEPT ![p] = IF after_failure(p) = "raised"
                                 THEN <<err>> ELSE <<>>]
    /\ pc' = [pc EXCEPT ![p] = after_failure(p)]
    /\ UNCHANGED <<closure, dict_obj, built, arg, code, call, req, nreq,
                   http, result, nvars>>

\* The caller has taken the outcome; the frame of the call is gone.
Discard(p) ==
    /\ pc[p] \in {"returned", "raised"}
    /\ pc' = [pc EXCEPT ![p] = "idle"]
    /\ arg' = [arg EXCEPT ![p] = <<>>]
    /\ code' = [code EXCEPT ![p] = <<>>]
    /\ call' = [call EXCEPT ![p] = <<>>]
    /\ req' = [req EXCEPT ![p] = <<>>]
    /\ nreq' = [nreq EXCEPT ![p] = 0]
    /\ http' = [http EXCEPT ![p] = <<>>]
    /\ fault' = [fault EXCEPT ![p] = <<>>]
    /\ exc' = [exc EXCEPT ![p] = <<>>]
    /\ result' = [result EXCEPT ![p] = <<>>]
    /\ UNCHANGED <<closure, dict_obj, built, nvars>>

\* The caller changes the dict it passed to build_code_exec.
MutateFiles(m) ==
    /\ closure.files # <<>>
    /\ m # dict_obj
    /\ dict_obj' = m
    /\ UNCHANGED <<closure, built, pc, arg, code, call, req, nreq, http,
                   fault, exc, result, nvars>>

DirectArgs ==
    [url : Urls, bearer_token : Tokens, code : CallCodes, files : OptFiles,
     strace : BOOLEAN, interpreter_mode : BOOLEAN]

Next ==
    \/ \E i \in Invocations, c \in CallCodes : Invoke(i, c)
    \/ \E i \in Invocations : AdapterPost(i)
    \/ \E a \in DirectArgs : DirectCall(a)
    \/ \E p \in Callers, s \in StatusCodes : TransportRespond(p, s)
    \/ \E p \in Callers, e \in TransportErrors : TransportFail(p, e)
    \/ \E p \in Callers : Discard(p)
    \/ \E m \in FileMaps : MutateFiles(m)

vars == <<pvars, nvars>>

Spec == Init /\ [][Next]_vars

(* ------------------------------------------------------------------ *)
(* The normalization of _code_exec, run on every code string, and run  *)
(* a second time on its own output                                     *)
(* ------------------------------------------------------------------ *)

NormStart ==
    /\ n_arg \in CodeStrings
    /\ n_code = n_arg
    /\ n_pc = "called"
    /\ n_pass = 1
    /\ n_first = <<>>

\* Line 158
NormStrip ==
    /\ n_pc = "called"
    /\ n_code' = strip(n_code)
    /\ n_pc' = "stripped"
    /\ UNCHANGED <<n_arg, n_pass, n_first, pvars>>

\* Lines 159-161
NormUnfence ==
    /\ n_pc = "stripped"
    /\ n_code' = unfence(n_code)
    /\ n_pc' = "sent"
    /\ UNCHANGED <<n_arg, n_pass, n_first, pvars>>

\* The code that was sent is passed to the adapter again.
NormAgain ==
    /\ n_pc = "sent"
    /\ n_pass = 1
    /\ n_first' = <<n_code>>
    /\ n_pass' = 2
    /\ n_pc' = "called"
    /\ UNCHANGED <<n_arg, n_code, pvars>>

NormNext == NormStrip \/ NormUnfence \/ NormAgain

\* One invocation of an adapter built with the defaults, for every code string.
NormInit ==
    /\ NormStart
    /\ closure = [url |-> "https://a.example/eval", bearer_token |-> <<"t", "k">>,
                  files |-> <<>>, strace |-> FALSE, interpreter_mode |-> FALSE]
    /\ dict_obj = {}
    /\ built = closure
    /\ pc = [p \in Callers |-> "idle"]
    /\ arg = [p \in Callers |-> <<>>]
    /\ code = [p \in Callers |-> <<>>]
    /\ call = [p \in Callers |-> <<>>]
    /\ req = [p \in Callers |-> <<>>]
    /\ nreq = [p \in Callers |-> 0]
    /\ http = [p \in Callers |-> <<>>]
    /\ fault = [p \in Callers |-> <<>>]
    /\ exc = [p \in Callers |-> <<>>]
    /\ result = [p \in Callers |-> <<>>]

SpecNorm == NormInit /\ [][NormNext]_vars

(* ------------------------------------------------------------------ *)
(* What the claims speak of, stated without the operators above        *)
(* ------------------------------------------------------------------ *)

Least(S) == CHOOSE x \in S : \A y \in S : x <= y
Greatest(S) == CHOOSE x \in S : \A y \in S : x >= y

\* The whitespace-trimmed form: from the first to the last character that
\* is not whitespace.
Trimmed(s) ==
    LET ink == {k \in 1..Len(s) : s[k] \notin Whitespace}
    IN  IF ink = {} THEN <<>> ELSE SubSeq(s, Least(ink), Greatest(ink))

\* Starts with three backticks and ends with three backticks.
FenceEnclosed(t) ==
    /\ Len(t) >= 3
    /\ \A k \in 1..3 : t[k] = BT /\ t[Len(t) - 3 + k] = BT

\* A string without its first and its last line: what lies between its
\* first and its last newline, nothing when it has fewer than three lines.
Interior(t) ==
    LET nls == {k \in 1..Len(t) : t[k] = NL}
    IN  IF Cardinality(nls) < 2 THEN <<>>
        ELSE SubSeq(t, Least(nls) + 1, Greatest(nls) - 1)

\* The normalization as the specification words it.
Normalized(c) ==
    IF FenceEnclosed(Trimmed(c)) THEN Interior(Trimmed(c)) ELSE Trimmed(c)

\* Nothing for a further pass to remove.
Settled(c) == Trimmed(c) = c /\ ~FenceEnclosed(c)

\* The string the pass in progress was given.
PassInput == IF n_pass = 1 THEN n_arg ELSE n_first[1]

Sent(p) == req[p] # <<>>
Args(p) == call[p][1]
Body(p) == req[p][1].json

(* ------------------------------------------------------------------ *)
(* Claims                                                              *)
(* ------------------------------------------------------------------ *)

\* C1: a call of code_exec with files None, strace false and
\* interpreter_mode false sends a body whose only key is code, holding the
\* code string that was passed.
C1_OnlyCodeKey ==
    \A p \in Callers :
        (/\ Sent(p)
         /\ Args(p).files = <<>>
         /\ ~Args(p).strace
         /\ ~Args(p).interpreter_mode)
        => /\ DOMAIN Body(p) = {"code"}
           /\ Body(p).code = Args(p).code

C1_Witness ==
    \E i \in Invocations :
        /\ Sent(i)
        /\ closure.files = <<>> /\ ~closure.strace /\ ~closure.interpreter_mode
        /\ Body(i).code = <<"b">>

\* C2: the body has key files exactly when a mapping was supplied (an empty
\* one included), holding that mapping; key strace exactly when strace is
\* true and key interpreter_mode exactly when interpreter_mode is true, each
\* holding True; no other optional key, none holding None or False.
C2_OptionalKeys ==
    \A p \in Callers :
        Sent(p) =>
            /\ "code" \in DOMAIN Body(p)
            /\ DOMAIN Body(p) \subseteq
                   {"code", "files", "strace", "interpreter_mode"}
            /\ ("files" \in DOMAIN Body(p)) <=> (Args(p).files # <<>>)
            /\ ("files" \in DOMAIN Body(p)) => Body(p).files = Args(p).files[1]
            /\ ("strace" \in DOMAIN Body(p)) <=> Args(p).strace
            /\ ("strace" \in DOMAIN Body(p)) => Body(p).strace = TRUE
            /\ ("interpreter_mode" \in DOMAIN Body(p))
                   <=> Args(p).interpreter_mode
            /\ ("interpreter_mode" \in DOMAIN Body(p))
                   => Body(p).interpreter_mode = TRUE

C2_Witness ==
    /\ Sent(Direct)
    /\ Args(Direct).files = <<{}>>
    /\ Args(Direct).strace
    /\ ~Args(Direct).interpreter_mode
    /\ DOMAIN Body(Direct) = {"code", "files", "strace"}

\* C3: when the trimmed code starts and ends with the fence marker, the code
\* sent is the trimmed string without its first and its last line, the
\* interior lines kept as they are, however many lines there are.
C3_FenceStripped ==
    (n_pc = "sent" /\ FenceEnclosed(Trimmed(PassInput)))
        => n_code = Interior(Trimmed(PassInput))

C3_Witness ==
    /\ n_pc = "sent"
    /\ n_pass = 1
    /\ FenceEnclosed(n_arg)
    /\ Len(n_arg) = 9
    /\ n_code = <<"a">>

\* C4: when the trimmed code does not both start and end with the fence
\* marker, the code sent is the trimmed string, fence text included.
C4_Unfenced ==
    (n_pc = "sent" /\ ~FenceEnclosed(Trimmed(PassInput)))
        => n_code = Trimmed(PassInput)

C4_Witness ==
    /\ n_pc = "sent"
    /\ n_pass = 1
    /\ n_arg # Trimmed(n_arg)
    /\ Len(n_code) > 3
    /\ SubSeq(n_code, 1, 3) = Fence
    /\ n_code[Len(n_code)] = "a"

\* C5: whatever the status of the response, the call returns the text of
\* the response unchanged and raises nothing.
C5_PassThrough ==
    \A p \in Callers :
        http[p] # <<>> =>
            /\ pc[p] = "returned"
            /\ exc[p] = <<>>
            /\ result[p] = <<http[p][1].text>>

C5_Witness ==
    \E i \in Invocations :
        /\ pc[i] = "returned"
        /\ http[i][1].status = 500
        /\ result[i] = <<http[i][1].text>>

\* C6: concurrent invocations of one adapter each send their own normalized
\* code and each return the response to their own request.
C6_NoCrossTalk ==
    \A i \in Invocations :
        /\ Sent(i) => Body(i).code = Normalized(arg[i][1])
        /\ pc[i] = "returned"
               => result[i] = << <<"out", i, Normalized(arg[i][1])>> >>

C6_Witness ==
    /\ pc[1] = "returned"
    /\ pc[2] = "waiting"
    /\ arg[1] # arg[2]
    /\ Body(1).code # Body(2).code

\* C7: every request is a POST to the url supplied, with Authorization
\* "Bearer " followed by the token as supplied and Content-Type
\* application/json.
C7_Headers ==
    \A p \in Callers :
        Sent(p) =>
            /\ req[p][1].method = "POST"
            /\ req[p][1].url = Args(p).url
            /\ DOMAIN req[p][1].headers = {"Content-Type", "Authorization"}
            /\ req[p][1].headers["Content-Type"] = "application/json"
            /\ req[p][1].headers["Authorization"]
                   = <<"B", "e", "a", "r", "e", "r", " ">> \o Args(p).bearer_token

C7_Witness ==
    /\ Sent(Direct)
    /\ Args(Direct).bearer_token = <<"a", SP, "%", SP>>
    /\ Len(req[Direct][1].headers["Authorization"]) = 11

\* C8: a call issues one request and ends: a transport failure leaves the
\* call as the exception the transport raised, with no second request and no
\* result; a response is followed by no further request.
C8_OneRequest ==
    \A p \in Callers :
        /\ nreq[p] <= 1
        /\ pc[p] \in {"waiting", "returned", "raised"} <=> nreq[p] = 1
        /\ fault[p] # <<>> =>
               /\ pc[p] = "raised"
               /\ exc[p] = fault[p]
               /\ result[p] = <<>>
               /\ http[p] = <<>>
        /\ pc[p] = "returned" => exc[p] = <<>> /\ result[p] # <<>>

C8_Witness ==
    \E i \in Invocations :
        /\ pc[i] = "raised"
        /\ exc[i] = <<"Timeout">>
        /\ nreq[i] = 1

\* C9 as claimed: normalizing the output of the normalization again yields
\* that output unchanged.
C9_Idempotent ==
    (n_pc = "sent" /\ n_pass = 2) => n_code = n_first[1]

\* C9 as amended: a second pass leaves the output unchanged exactly when the
\* trimmed input is not fence-enclosed, or it is and its interior lines have
\* no surrounding whitespace and are not fence-enclosed themselves.
C9_IdempotentWhenSettled ==
    (n_pc = "sent" /\ n_pass = 2) =>
        ((n_code = n_first[1])
            <=> \/ ~FenceEnclosed(Trimmed(n_arg))
                \/ Settled(Interior(Trimmed(n_arg))))

C9_Witness ==
    /\ n_pc = "sent"
    /\ n_pass = 2
    /\ FenceEnclosed(Trimmed(n_arg))
    /\ n_first[1] = <<SP>>
    /\ n_code = <<>>

\* C10 as claimed: every invocation sends the url, the token, the files
\* mapping and the two flags with the values they had when the adapter was
\* built.
C10_SendsBuiltValues ==
    \A i \in Invocations :
        Sent(i) =>
            /\ Args(i).url = built.url
            /\ Args(i).bearer_token = built.bearer_token
            /\ Args(i).files = built.files
            /\ Args(i).strace = built.strace
            /\ Args(i).interpreter_mode = built.interpreter_mode

\* C10 as amended: no step changes the closure, no step of a call changes
\* the caller's dict, and an invocation sends the url, the token and the
\* flags as built, with files None if it was None and otherwise the dict as
\* it is when the request is built.
C10_BoundByReference ==
    [][/\ closure' = closure
       /\ dict_obj' # dict_obj => pc' = pc
       /\ \A i \in Invocations :
              (call'[i] # call[i] /\ call'[i] # <<>>) =>
                  call'[i] = <<[url |-> built.url,
                                bearer_token |-> built.bearer_token,
                                code |-> code[i],
                                files |-> IF built.files = <<>> THEN <<>>
                                          ELSE <<dict_obj>>,
                                strace |-> built.strace,
                                interpreter_mode |-> built.interpreter_mode]>>
      ]_vars

C10_Witness ==
    \E i \in Invocations :
        /\ Sent(i)
        /\ built.files = <<{}>>
        /\ Args(i).files = <<{<<"data.txt", "x">>}>>
        /\ Body(i).files = {<<"data.txt", "x">>}

====
